---------------------------- MODULE Spec2Model ----------------------------
(***************************************************************************)
(* Model of InvestingNewsExtractor (src/investing.py): the crawl pipeline  *)
(* main -> get_news_links -> get_all_news_content -> quit_chrome, the      *)
(* browser sessions it starts and quits, and the extraction and timestamp  *)
(* functions it applies to the fetched pages.                              *)
(*                                                                         *)
(* Python values: None is the empty sequence and a present value x is the  *)
(* one-element sequence <<x>>.  A str that the code indexes or parses is a *)
(* sequence of one-character strings; a str that is only compared or       *)
(* concatenated is a TLA+ string.  An int that exceeds 32 bits is the pair *)
(* [hi, lo] standing for hi * 10^6 + lo.                                   *)
(***************************************************************************)
EXTENDS Integers, Sequences, FiniteSets, TLC

VARIABLES
    pc,                 \* position of the extractor: which part of main runs next
    exc,                \* the exception main ended with ("" when none)
    driver,             \* self.driver: 0 is None, s > 0 is browser session s
    sessions,           \* sessions[s]: how many times quit() was invoked on session s
    tz,                 \* UTC offset, in seconds, of the host's local time zone
    calls,              \* number of main invocations made on this extractor
    symbol,             \* argument of main
    page_count,         \* argument of main
    i,                  \* loop variable of get_news_links
    links,              \* local list of get_news_links, then argument of get_all_news_content
    j,                  \* index in links of the loop variable of get_all_news_content
    news_information,   \* local list of get_all_news_content, the value main returns
    src,                \* history: src[k] is the index in links of the link news_information[k] was built from
    fetchLog,           \* history: the get_site_html_content calls of this main call
    entryDriver,        \* history: self.driver when this main call was entered
    arg,                \* a function applied on its own: the function and its argument
    result              \* None until it is applied, then the value it returned

vars == <<pc, exc, driver, sessions, tz, calls, symbol, page_count, i, links, j,
          news_information, src, fetchLog, entryDriver, arg, result>>

-----------------------------------------------------------------------------
(* Bounds of the model *)

MaxPages == 2
MaxCalls == 2
MaxCards == 2
MaxParas == 2

-----------------------------------------------------------------------------
(* Python values *)

None == <<>>
Some(x) == <<x>>

base_url == "https://www.investing.com"

\* news_pages_url.format(symbol=symbol, page_number=page_number)
news_pages_url(sym, page_number) ==
    "https://www.investing.com/currencies/" \o sym \o "-news/" \o ToString(page_number)

Symbols == {"eur-usd", "gbp-usd"}

TZOffsets == {0, 12600}

-----------------------------------------------------------------------------
(* Timestamp strings and datetime.strptime(s, "%Y-%m-%d %H:%M:%S") *)

Digits == {"0", "1", "2", "3", "4", "5", "6", "7", "8", "9"}

DigitVal(c) == CHOOSE d \in 0..9 : ToString(d) = c

IsDigit(s, p) == p <= Len(s) /\ s[p] \in Digits

\* a directive that takes one or two digits (%m %d %H %M %S): the number read
\* at position p and the position after it; n = 0 digits is a mismatch
NumField(s, p) ==
    IF IsDigit(s, p) /\ IsDigit(s, p + 1)
    THEN [n |-> 2, val |-> 10 * DigitVal(s[p]) + DigitVal(s[p + 1]), next |-> p + 2]
    ELSE IF IsDigit(s, p)
         THEN [n |-> 1, val |-> DigitVal(s[p]), next |-> p + 1]
         ELSE [n |-> 0, val |-> 0, next |-> p]

Lit(s, p, c) == p <= Len(s) /\ s[p] = c

\* the format's blank matches one or more blanks
RECURSIVE SkipBlanks(_, _)
SkipBlanks(s, p) == IF Lit(s, p, " ") THEN SkipBlanks(s, p + 1) ELSE p

IsLeap(y) == (y % 4 = 0 /\ y % 100 # 0) \/ y % 400 = 0

DaysInMonth(y, m) ==
    IF m = 2 THEN (IF IsLeap(y) THEN 29 ELSE 28)
    ELSE IF m \in {4, 6, 9, 11} THEN 30 ELSE 31

ParseError == [ok |-> FALSE, Y |-> 0, m |-> 0, d |-> 0, H |-> 0, M |-> 0, S |-> 0]

strptime(s) ==
    IF ~(IsDigit(s, 1) /\ IsDigit(s, 2) /\ IsDigit(s, 3) /\ IsDigit(s, 4) /\ Lit(s, 5, "-"))
    THEN ParseError
    ELSE
    LET Y  == 1000 * DigitVal(s[1]) + 100 * DigitVal(s[2]) + 10 * DigitVal(s[3]) + DigitVal(s[4])
        fm == NumField(s, 6)
        fd == NumField(s, fm.next + 1)
        pH == SkipBlanks(s, fd.next)
        fH == NumField(s, pH)
        fM == NumField(s, fH.next + 1)
        fS == NumField(s, fM.next + 1)
    IN  IF /\ fm.n > 0 /\ fm.val \in 1..12 /\ Lit(s, fm.next, "-")
           /\ fd.n > 0 /\ fd.val \in 1..31
           /\ pH > fd.next
           /\ fH.n > 0 /\ fH.val \in 0..23 /\ Lit(s, fH.next, ":")
           /\ fM.n > 0 /\ fM.val \in 0..59 /\ Lit(s, fM.next, ":")
           /\ fS.n > 0 /\ fS.val \in 0..59
           /\ fS.next = Len(s) + 1
           /\ Y >= 1
           /\ fd.val <= DaysInMonth(Y, fm.val)
        THEN [ok |-> TRUE, Y |-> Y, m |-> fm.val, d |-> fd.val,
              H |-> fH.val, M |-> fM.val, S |-> fS.val]
        ELSE ParseError

\* days from 1970-01-01 to the civil date y-m-d (proleptic Gregorian)
DaysFromCivil(y, m, d) ==
    LET yy  == IF m <= 2 THEN y - 1 ELSE y
        era == yy \div 400
        yoe == yy - era * 400
        mp  == (m + 9) % 12
        doy == (153 * mp + 2) \div 5 + d - 1
        doe == yoe * 365 + yoe \div 4 - yoe \div 100 + doy
    IN  era * 146097 + doe - 719468

\* naive datetime.timestamp(): the fields are read as local time of the host
timestamp(dt, offset) ==
    DaysFromCivil(dt.Y, dt.m, dt.d) * 86400 + dt.H * 3600 + dt.M * 60 + dt.S - offset

\* int(seconds * 1000)
Millis(seconds) == [hi |-> seconds \div 1000, lo |-> (seconds % 1000) * 1000]


-----------------------------------------------------------------------------
(* Fetched pages, as the queries of the extractor see them *)

TsGood == <<"2","0","2","4","-","0","5","-","0","1"," ","1","2",":","0","0",":","0","0">>
TsLate == <<"2","0","2","4","-","0","5","-","0","2"," ","0","8",":","3","0",":","1","5">>
TsIso  == <<"2","0","2","4","-","0","5","-","0","1","T","1","2",":","0","0",":","0","0","Z">>

\* an <article data-test="article-item">: its first title link and its first
\* publish-date element, each absent, present without the attribute read, or
\* present with it
Card(link, href, time, datetime) ==
    [link |-> link, href |-> href, time |-> time, datetime |-> datetime]

CardA      == Card("href", "/news/a", "datetime", TsGood)
CardB      == Card("href", "/news/b", "datetime", TsLate)
CardBIso   == Card("href", "/news/b", "datetime", TsIso)
CardNoLink == Card("absent", "", "datetime", TsGood)
CardNoHref == Card("noattr", "", "datetime", TsGood)
CardNoDatetime == Card("href", "/news/a", "noattr", <<>>)

\* a page: its article cards, whether it has <div id="article">, the texts of
\* the <p> elements inside that div, whether it has <h1 id="articleTitle">,
\* and that heading's text
Page(cards, hasBody, paras, hasTitle, title) ==
    [cards |-> cards, hasBody |-> hasBody, paras |-> paras,
     hasTitle |-> hasTitle, title |-> title]

\* the listing pages the site serves in the model
ListingPages ==
    { Page(c, FALSE, <<>>, FALSE, "") :
        c \in { <<>>,
                <<CardA>>,
                <<CardA, CardB>>,
                <<CardBIso, CardA>>,
                <<CardNoLink, CardB>>,
                <<CardA, CardNoHref>>,
                <<CardB, CardNoDatetime>> } }

\* the article pages the site serves in the model
ArticlePages ==
    { Page(<<>>, FALSE, <<>>, TRUE, "T1"),
      Page(<<>>, TRUE, <<"x">>, FALSE, ""),
      Page(<<>>, TRUE, <<"x">>, TRUE, "T1"),
      Page(<<>>, TRUE, <<"x", "y">>, TRUE, "T2") }

\* what one call of get_site_html_content meets: whether setup_chrome
\* succeeds, whether driver.get and page_source succeed, and the page served
FetchOutcomes(pages) ==
    { [setup |-> FALSE, get |-> FALSE, page |-> Page(<<>>, FALSE, <<>>, FALSE, "")],
      [setup |-> TRUE,  get |-> FALSE, page |-> Page(<<>>, FALSE, <<>>, FALSE, "")] }
    \cup { [setup |-> TRUE, get |-> TRUE, page |-> p] : p \in pages }

-----------------------------------------------------------------------------
(* get_site_html_content *)

\* the finally clause testing self.driver, which is always there
DriverInLocals_True == TRUE

\* 'driver' in locals(): the method has the locals self, url, html_content, e
DriverInLocals == FALSE

\* self.driver.quit() on driver d; on None it raises AttributeError
quit(d, sess) ==
    IF d = 0
    THEN [raised |-> "AttributeError", sessions |-> sess]
    ELSE [raised |-> "", sessions |-> [sess EXCEPT ![d] = @ + 1]]

\* setup_chrome keeping a session that self.driver already holds instead of
\* starting another one
setup_chrome_ReusesDriver(d, sess, out) ==
    IF out.setup /\ d = 0
    THEN [driver |-> Len(sess) + 1, sessions |-> Append(sess, 0)]
    ELSE [driver |-> d, sessions |-> sess]

\* setup_chrome assigns self.driver only when the session was created
setup_chrome(d, sess, out) ==
    IF out.setup
    THEN [driver |-> Len(sess) + 1, sessions |-> Append(sess, 0)]
    ELSE [driver |-> d, sessions |-> sess]

get_site_html_content(d, sess, out) ==
    LET st   == setup_chrome(d, sess, out)
        html == IF out.setup /\ out.get THEN Some(out.page) ELSE None
        fin  == IF DriverInLocals
                THEN quit(st.driver, st.sessions)
                ELSE [raised |-> "", sessions |-> st.sessions]
    IN  [raised |-> fin.raised, html |-> html, driver |-> st.driver,
         sessions |-> fin.sessions,
         session |-> IF out.setup THEN st.driver ELSE 0]

-----------------------------------------------------------------------------
(* extract_links_from_html *)

\* the loop saving an entry whenever the url is there: `if url:`
RECURSIVE ArticleItems_KeepsPartial(_, _)
ArticleItems_KeepsPartial(cards, news_data) ==
    IF cards = <<>> THEN [raised |-> "", value |-> news_data]
    ELSE LET article == Head(cards)
         IN  IF article.link = "noattr" \/ article.time = "noattr"
             THEN [raised |-> "KeyError", value |-> <<>>]
             ELSE IF article.link = "href" /\ article.href # ""
                  THEN ArticleItems_KeepsPartial(Tail(cards),
                           Append(news_data, [url |-> article.href,
                                              timestamp |-> article.datetime]))
                  ELSE ArticleItems_KeepsPartial(Tail(cards), news_data)

\* the loop with the try inside it: a card that raises is skipped and the
\* other cards of the page are kept
RECURSIVE ArticleItems_SkipsBadCard(_, _)
ArticleItems_SkipsBadCard(cards, news_data) ==
    IF cards = <<>> THEN [raised |-> "", value |-> news_data]
    ELSE LET article == Head(cards)
         IN  IF /\ article.link = "href" /\ article.href # ""
                /\ article.time = "datetime" /\ article.datetime # <<>>
             THEN ArticleItems_SkipsBadCard(Tail(cards),
                      Append(news_data, [url |-> article.href,
                                         timestamp |-> article.datetime]))
             ELSE ArticleItems_SkipsBadCard(Tail(cards), news_data)

\* link_tag['href'] if link_tag else None ; time_tag['datetime'] if time_tag else None
RECURSIVE ArticleItems(_, _)
ArticleItems(cards, news_data) ==
    IF cards = <<>> THEN [raised |-> "", value |-> news_data]
    ELSE LET article == Head(cards)
         IN  IF article.link = "noattr" \/ article.time = "noattr"
             THEN [raised |-> "KeyError", value |-> <<>>]
             ELSE IF /\ article.link = "href" /\ article.href # ""
                     /\ article.time = "datetime" /\ article.datetime # <<>>
                  THEN ArticleItems(Tail(cards),
                           Append(news_data, [url |-> article.href,
                                              timestamp |-> article.datetime]))
                  ELSE ArticleItems(Tail(cards), news_data)

\* BeautifulSoup(None, ...) raises TypeError; every Exception gives []
extract_links_from_html(html_content) ==
    IF html_content = None THEN <<>>
    ELSE LET r == ArticleItems(html_content[1].cards, <<>>)
         IN  IF r.raised # "" THEN <<>> ELSE r.value

-----------------------------------------------------------------------------
(* extract_content_from_news_link, after its fetch *)

\* "\n".join(p_texts): no newline after the last paragraph
RECURSIVE JoinParagraphs_NoTrailing(_)
JoinParagraphs_NoTrailing(p_texts) ==
    IF p_texts = <<>> THEN ""
    ELSE IF Len(p_texts) = 1 THEN Head(p_texts)
    ELSE Head(p_texts) \o "\n" \o JoinParagraphs_NoTrailing(Tail(p_texts))

RECURSIVE JoinParagraphs(_)
JoinParagraphs(p_texts) ==
    IF p_texts = <<>> THEN ""
    ELSE Head(p_texts) \o "\n" \o JoinParagraphs(Tail(p_texts))

\* the except clause calls self.log.logger(e); logging.Logger has no
\* attribute logger, so the handler itself raises AttributeError
ExceptHandler == [raised |-> "AttributeError", value |-> None]

\* extract_content_from_news_link returning an empty dict for a page without
\* the body container instead of None
extract_content_Placeholder(html_content) ==
    IF html_content = None THEN ExceptHandler
    ELSE LET soup == html_content[1]
         IN  IF soup.hasBody /\ ~soup.hasTitle
             THEN ExceptHandler
             ELSE [raised |-> "",
                   value |-> Some([content |-> JoinParagraphs(soup.paras),
                                   title |-> soup.title])]

extract_content(html_content) ==
    IF html_content = None THEN ExceptHandler
    ELSE LET soup == html_content[1]
         IN  IF soup.hasBody
             THEN IF soup.hasTitle
                  THEN [raised |-> "",
                        value |-> Some([content |-> JoinParagraphs(soup.paras),
                                        title |-> soup.title])]
                  ELSE ExceptHandler
             ELSE [raised |-> "", value |-> None]

-----------------------------------------------------------------------------
(* The crawl: main, get_news_links, get_all_news_content, quit_chrome *)

\* the crawl applies no function on its own
NoArg == [fn |-> "", html |-> None]

Init ==
    /\ pc = "idle"
    /\ exc = ""
    /\ driver = 0
    /\ sessions = <<>>
    /\ tz \in TZOffsets
    /\ calls = 0
    /\ symbol = ""
    /\ page_count = 0
    /\ i = 1
    /\ links = <<>>
    /\ j = 1
    /\ news_information = <<>>
    /\ src = <<>>
    /\ fetchLog = <<>>
    /\ entryDriver = 0
    /\ arg = NoArg
    /\ result = None

\* the loop of get_news_links taken as range(1, page_count): the last page
\* is never attempted
AfterPages_SkipsLastPage(done, n, ls) ==
    IF done < n - 1 THEN "get_news_links"
    ELSE IF ls # <<>> THEN "get_all_news_content" ELSE "quit_chrome"

\* where main continues once get_news_links has attempted page `done` of
\* `n` and holds the list `ls`
AfterPages(done, n, ls) ==
    IF done < n THEN "get_news_links"
    ELSE IF ls # <<>> THEN "get_all_news_content" ELSE "quit_chrome"

\* main is entered.  The histories restart with the call: of the sessions of
\* earlier calls only the one self.driver still refers to is kept, as
\* session 1; the extractor holds no reference to any other.
main(sym, n) ==
    /\ pc \in {"idle", "returned", "raised"}
    /\ calls < MaxCalls
    /\ calls' = calls + 1
    /\ symbol' = sym
    /\ page_count' = n
    /\ exc' = ""
    /\ driver' = IF driver = 0 THEN 0 ELSE 1
    /\ sessions' = IF driver = 0 THEN <<>> ELSE <<sessions[driver]>>
    /\ entryDriver' = IF driver = 0 THEN 0 ELSE 1
    /\ i' = 1
    /\ links' = <<>>
    /\ j' = 1
    /\ news_information' = <<>>
    /\ src' = <<>>
    /\ fetchLog' = <<>>
    /\ pc' = AfterPages(0, n, <<>>)
    /\ UNCHANGED <<tz, arg, result>>

\* history of one get_site_html_content call: the url asked for, the session
\* setup_chrome started for it (0 when it started none), the value returned
LogEntry(url, r) == [url |-> url, session |-> r.session, html |-> r.html]

\* the links one iteration of get_news_links appends: an exception of the
\* fetch is caught by the except of the loop body and appends nothing
PageLinks(r) ==
    IF r.raised # "" THEN <<>> ELSE extract_links_from_html(r.html)

\* a loop that stays on the page whose fetch failed, to try it again
NextPage_RetryFailed(page_number, r) ==
    IF r.html = None THEN page_number ELSE page_number + 1

\* the for loop over range(1, page_count + 1) moves on to the next page
\* whatever the iteration did
NextPage(page_number, r) == page_number + 1

\* one iteration of the loop of get_news_links
get_news_links ==
    /\ pc = "get_news_links"
    /\ i <= page_count
    /\ \E out \in FetchOutcomes(ListingPages) :
         LET r == get_site_html_content(driver, sessions, out)
             ls == links \o PageLinks(r)
         IN  /\ driver' = r.driver
             /\ sessions' = r.sessions
             /\ links' = ls
             /\ fetchLog' = Append(fetchLog, LogEntry(news_pages_url(symbol, i), r))
             /\ i' = NextPage(i, r)
             /\ pc' = AfterPages(NextPage(i, r) - 1, page_count, ls)
    /\ UNCHANGED <<exc, tz, calls, symbol, page_count, j, news_information, src,
                   entryDriver, arg, result>>

\* the dict built with the absolute url fetched instead of the link's url
NewsRecord_AbsoluteUrl(sym, link, news_content, offset) ==
    [symbol |-> sym,
     content |-> news_content[1].content,
     url |-> base_url \o link.url,
     title |-> news_content[1].title,
     timestamp |-> Millis(timestamp(strptime(link.timestamp), offset))]

\* the dict get_all_news_content appends for link `link`
NewsRecord(sym, link, news_content, offset) ==
    [symbol |-> sym,
     content |-> news_content[1].content,
     url |-> link.url,
     title |-> news_content[1].title,
     timestamp |-> Millis(timestamp(strptime(link.timestamp), offset))]

\* news_information.insert(0, record)
AddRecord_AtFront(info, record) == <<record>> \o info

\* news_information.append(record)
AddRecord(info, record) == Append(info, record)

\* the exception one iteration of get_all_news_content ends with, in the
\* order the statements are executed: extract_content_from_news_link,
\* strptime, news_content["content"]
LinkError(c, link) ==
    IF c.raised # "" THEN c.raised
    ELSE IF ~strptime(link.timestamp).ok THEN "ValueError"
    ELSE IF c.value = None THEN "TypeError"
    ELSE ""

\* one iteration of the loop of get_all_news_content
get_all_news_content ==
    /\ pc = "get_all_news_content"
    /\ j <= Len(links)
    /\ \E out \in FetchOutcomes(ArticlePages) :
         LET link == links[j]
             r == get_site_html_content(driver, sessions, out)
             c == IF r.raised # "" THEN ExceptHandler ELSE extract_content(r.html)
             error == LinkError(c, link)
         IN  /\ driver' = r.driver
             /\ sessions' = r.sessions
             /\ fetchLog' = Append(fetchLog, LogEntry(base_url \o link.url, r))
             /\ IF error # ""
                THEN /\ pc' = "raised"
                     /\ exc' = error
                     /\ UNCHANGED <<j, news_information, src>>
                ELSE /\ news_information' =
                            AddRecord(news_information, NewsRecord(symbol, link, c.value, tz))
                     /\ src' = Append(src, j)
                     /\ j' = j + 1
                     /\ pc' = IF j < Len(links) THEN "get_all_news_content" ELSE "quit_chrome"
                     /\ UNCHANGED exc
    /\ UNCHANGED <<tz, calls, symbol, page_count, i, links, entryDriver, arg, result>>

\* self.quit_chrome() and the return of main
quit_chrome ==
    /\ pc = "quit_chrome"
    /\ LET q == quit(driver, sessions)
       IN  /\ sessions' = q.sessions
           /\ pc' = IF q.raised # "" THEN "raised" ELSE "returned"
           /\ exc' = q.raised
    /\ UNCHANGED <<driver, tz, calls, symbol, page_count, i, links, j,
                   news_information, src, fetchLog, entryDriver, arg, result>>

Next ==
    \/ \E sym \in Symbols, n \in 0..MaxPages : main(sym, n)
    \/ get_news_links
    \/ get_all_news_content
    \/ quit_chrome

Spec == Init /\ [][Next]_vars

\* the crawl is sequential code: a call that has been entered runs its next
\* step whenever the fetch of that step returns
FairSpec ==
    /\ Spec
    /\ WF_vars(get_news_links)
    /\ WF_vars(get_all_news_content)
    /\ WF_vars(quit_chrome)

-----------------------------------------------------------------------------
(* The extraction functions applied on their own to any page *)

\* the title links and the publish-date elements a card can have; an
\* attribute can be present and empty
CardLinks ==
    { <<"absent", "">>, <<"noattr", "">>, <<"href", "">>,
      <<"href", "/news/a">>, <<"href", "/news/b">> }

CardTimes ==
    { <<"absent", <<>>>>, <<"noattr", <<>>>>, <<"datetime", <<>>>>,
      <<"datetime", TsGood>>, <<"datetime", TsIso>> }

AllCards == { Card(l[1], l[2], t[1], t[2]) : l \in CardLinks, t \in CardTimes }

AllListingPages ==
    { Page(c, FALSE, <<>>, FALSE, "") :
        c \in UNION { [1..n -> AllCards] : n \in 0..MaxCards } }

ParaTexts == {"x", "y", ""}

AllArticlePages ==
    { Page(<<>>, b, p, t[1], t[2]) :
        b \in BOOLEAN,
        p \in UNION { [1..n -> ParaTexts] : n \in 0..MaxParas },
        t \in { <<FALSE, "">>, <<TRUE, "">>, <<TRUE, "T1">> } }

ExtractInit ==
    /\ pc = "idle"
    /\ exc = ""
    /\ driver = 0
    /\ sessions = <<>>
    /\ tz \in TZOffsets
    /\ calls = 0
    /\ symbol = ""
    /\ page_count = 0
    /\ i = 1
    /\ links = <<>>
    /\ j = 1
    /\ news_information = <<>>
    /\ src = <<>>
    /\ fetchLog = <<>>
    /\ entryDriver = 0
    /\ arg \in { [fn |-> "extract_links_from_html", html |-> h] :
                    h \in {None} \cup { Some(q) : q \in AllListingPages } }
               \cup { [fn |-> "extract_content", html |-> h] :
                    h \in {None} \cup { Some(q) : q \in AllArticlePages } }
    /\ result = None

Unapplied == <<pc, exc, driver, sessions, tz, calls, symbol, page_count, i, links, j,
               news_information, src, fetchLog, entryDriver, arg>>

\* extract_links_from_html(html_content) is called
ApplyExtractLinks ==
    /\ arg.fn = "extract_links_from_html"
    /\ result = None
    /\ result' = Some([raised |-> "", value |-> extract_links_from_html(arg.html)])
    /\ UNCHANGED Unapplied

\* the part of extract_content_from_news_link that follows its fetch is run
ApplyExtractContent ==
    /\ arg.fn = "extract_content"
    /\ result = None
    /\ result' = Some(extract_content(arg.html))
    /\ UNCHANGED Unapplied

ExtractNext == ApplyExtractLinks \/ ApplyExtractContent

ExtractSpec == ExtractInit /\ [][ExtractNext]_vars

-----------------------------------------------------------------------------
(* Notions the properties are stated in *)

\* the sessions setup_chrome started during the current main call
StartedThisCall == { s \in 1..Len(sessions) : s # entryDriver }

\* the listing pages get_news_links has attempted so far
PagesAttempted == IF Len(fetchLog) < page_count THEN Len(fetchLog) ELSE page_count

\* the article fetches made so far; fetch k is the one for links[k]
NumArticleFetches == IF Len(fetchLog) > page_count THEN Len(fetchLog) - page_count ELSE 0

ArticleFetch(k) == fetchLog[page_count + k]

\* the fetch for link k returned a page that has the body container
HasArticle(k) == ArticleFetch(k).html # None /\ ArticleFetch(k).html[1].hasBody

\* main ended by an exception raised inside get_all_news_content: the link
\* fetched last got no record
AbortedInArticles == pc = "raised" /\ NumArticleFetches > Len(news_information)

\* the links of the first n listing pages attempted, page after page, a page
\* whose fetch failed giving none
RECURSIVE LinksOfPages(_)
LinksOfPages(n) ==
    IF n = 0 THEN <<>>
    ELSE LinksOfPages(n - 1) \o
         (IF fetchLog[n].html = None THEN <<>>
          ELSE extract_links_from_html(fetchLog[n].html))

-----------------------------------------------------------------------------
(* Session release *)

\* C1: when main returns, every session started during the call has been
\* quit exactly once: none is left running, none is quit twice.
C1_EverySessionStoppedOnce ==
    pc = "returned" => \A s \in StartedThisCall : sessions[s] = 1

\* C2: when main ends by an exception raised while the links are collected
\* or the articles extracted, no session started during the call is left
\* running.
C2_AbortReleasesSessions ==
    AbortedInArticles => \A s \in StartedThisCall : sessions[s] >= 1

\* C3: main with page_count = 0 on a fresh extractor performs no fetch,
\* raises no error and returns the empty list.
C3_ZeroPagesReturnsEmpty ==
    (calls = 1 /\ page_count = 0) =>
        /\ pc # "raised"
        /\ fetchLog = <<>>
        /\ news_information = <<>>

-----------------------------------------------------------------------------
(* Partial failure *)

\* C4: a link whose article fetch fails, or whose article has no body
\* container, gets no record and does not end the crawl: the remaining links
\* are still processed.
C4_FailedArticleIsSkipped ==
    \A k \in 1..NumArticleFetches :
        ~HasArticle(k) =>
            /\ \A r \in 1..Len(src) : src[r] # k
            /\ pc # "raised"

C5_State ==
    /\ \A k \in 1..PagesAttempted : fetchLog[k].url = news_pages_url(symbol, k)
    /\ pc = "get_news_links" => Len(fetchLog) = i - 1 /\ i <= page_count
    /\ pc \in {"get_all_news_content", "quit_chrome", "returned", "raised"} =>
           Len(fetchLog) >= page_count
    /\ links = LinksOfPages(PagesAttempted)

C5_Step ==
    pc = "get_news_links" =>
        /\ pc' # "raised"
        /\ Len(fetchLog') = Len(fetchLog) + 1
        /\ i' = i + 1

\* C5: get_news_links attempts every page 1..page_count exactly once, in
\* increasing order, whatever fetch fails; it never raises; and its list is
\* the concatenation, in page order, of the links extracted from the pages
\* whose fetch succeeded, a failed page contributing none.
C5_EveryPageAttemptedInOrder == []C5_State /\ [][C5_Step]_vars

\* a failed page 1 was followed by a page 2 that gave links
C5_Witness ==
    /\ page_count = 2
    /\ pc = "get_all_news_content"
    /\ fetchLog[1].html = None
    /\ fetchLog[2].html # None
    /\ links # <<>>

\* C6: a link whose timestamp does not match "%Y-%m-%d %H:%M:%S" gets no
\* record and does not end the crawl: the ValueError of strptime never ends
\* main, so the later well-formed links still get their records.
C6_BadTimestampIsSkipped ==
    \A k \in 1..NumArticleFetches :
        ~strptime(links[k].timestamp).ok =>
            /\ \A r \in 1..Len(src) : src[r] # k
            /\ ~(pc = "raised" /\ exc = "ValueError")

-----------------------------------------------------------------------------
(* The records *)

\* C7: every record of news_information, hence every record main returns,
\* is fully populated: it was built from an article page that was fetched
\* and has both the body container and the title heading, from a link with
\* a url and a timestamp that parses, and it carries the symbol of the call.
C7_RecordsFullyPopulated ==
    \A k \in 1..Len(news_information) :
        LET record == news_information[k]
        IN  /\ src[k] \in 1..NumArticleFetches
            /\ HasArticle(src[k])
            /\ ArticleFetch(src[k]).html[1].hasTitle
            /\ strptime(links[src[k]].timestamp).ok
            /\ record.url # ""
            /\ record.symbol \in Symbols

\* main returned records although a listing page failed
C7_Witness ==
    /\ pc = "returned"
    /\ news_information # <<>>
    /\ \E k \in 1..page_count : fetchLog[k].html = None

\* no record carries this value: lo is never negative
NoTimestamp == [hi |-> 0, lo |-> 0 - 1]

\* what identifies the link a record was built from: its url and its
\* normalized timestamp (a timestamp that does not parse has none)
LinkKeys(ls) ==
    [k \in 1..Len(ls) |->
        <<ls[k].url,
          IF strptime(ls[k].timestamp).ok
          THEN Millis(timestamp(strptime(ls[k].timestamp), tz))
          ELSE NoTimestamp>>]

RecordKeys(rs) == [k \in 1..Len(rs) |-> <<rs[k].url, rs[k].timestamp>>]

\* s is t with some elements left out
RECURSIVE IsSubseq(_, _)
IsSubseq(s, t) ==
    IF s = <<>> THEN TRUE
    ELSE IF t = <<>> THEN FALSE
    ELSE IF Head(s) = Head(t) THEN IsSubseq(Tail(s), Tail(t))
    ELSE IsSubseq(s, Tail(t))

\* C8: the records keep the discovery order: they are, in order, records of
\* a subsequence of the collected links, each link giving at most one
\* record, and the collected links are those of pages 1..page_count in page
\* order and, within a page, in document order.
C8_RecordsInDiscoveryOrder ==
    /\ links = LinksOfPages(PagesAttempted)
    /\ Len(news_information) <= Len(links)
    /\ IsSubseq(RecordKeys(news_information), LinkKeys(links))

\* main returned three records, found on two pages
C8_Witness ==
    /\ pc = "returned"
    /\ page_count = 2
    /\ Len(news_information) = 3
    /\ fetchLog[1].html # None
    /\ fetchLog[2].html # None
    /\ news_information[1].url # news_information[2].url

\* C9: each record pairs the fields of one link: url and timestamp are those
\* of the link it was built from, title and content are those of the page
\* fetched at base_url + that link's url in the same iteration, and symbol
\* is the symbol argument of main.
C9_RecordPairsOneLink ==
    \A k \in 1..Len(news_information) :
        LET record == news_information[k]
            link == links[src[k]]
            fetch == ArticleFetch(src[k])
        IN  /\ record.url = link.url
            /\ record.timestamp = Millis(timestamp(strptime(link.timestamp), tz))
            /\ fetch.url = base_url \o link.url
            /\ fetch.html # None
            /\ record.title = fetch.html[1].title
            /\ record.content = JoinParagraphs(fetch.html[1].paras)
            /\ record.symbol = symbol

\* main returned two records of different links with different articles
C9_Witness ==
    /\ pc = "returned"
    /\ Len(news_information) >= 2
    /\ news_information[1].url # news_information[2].url
    /\ news_information[1].title # news_information[2].title

-----------------------------------------------------------------------------
(* Sessions and fetches *)

\* the fetches of this call for which setup_chrome started a session
FetchesWithSession == { k \in 1..Len(fetchLog) : fetchLog[k].session # 0 }

-----------------------------------------------------------------------------
(* Failure to start a session *)

\* this step made a fetch for which setup_chrome started no session
StartFailed ==
    /\ Len(fetchLog') = Len(fetchLog) + 1
    /\ fetchLog'[Len(fetchLog')].session = 0

C11_Step ==
    StartFailed =>
        /\ fetchLog'[Len(fetchLog')].html = None
        /\ sessions' = sessions
        /\ driver' = driver
        /\ pc = "get_news_links" =>
               /\ links' = links
               /\ pc' # "raised"
               /\ i < page_count => pc' = "get_news_links"

C12_StopUnstartedIsNoOp ==
    (driver = 0 /\ pc = "raised") => AbortedInArticles

-----------------------------------------------------------------------------
(* extract_links_from_html on its own *)

\* extract_links_from_html was applied to a page
LinksApplied ==
    arg.fn = "extract_links_from_html" /\ arg.html # None /\ result # None

\* the card has a title link with an href and a time element with a datetime
HasBoth(card) == card.link = "href" /\ card.time = "datetime"

\* ... and neither attribute is the empty string
HasBothNonEmpty(card) == HasBoth(card) /\ card.href # "" /\ card.datetime # <<>>

\* reading the card raises: an element is there without the attribute read
Raises(card) == card.link = "noattr" \/ card.time = "noattr"

\* the cards of the page with both attributes, as links, in document order
RECURSIVE LinksOfCards(_)
LinksOfCards(cards) ==
    IF cards = <<>> THEN <<>>
    ELSE (IF HasBoth(Head(cards))
          THEN <<[url |-> Head(cards).href, timestamp |-> Head(cards).datetime]>>
          ELSE <<>>) \o LinksOfCards(Tail(cards))

RECURSIVE LinksOfNonEmptyCards(_)
LinksOfNonEmptyCards(cards) ==
    IF cards = <<>> THEN <<>>
    ELSE (IF HasBothNonEmpty(Head(cards))
          THEN <<[url |-> Head(cards).href, timestamp |-> Head(cards).datetime]>>
          ELSE <<>>) \o LinksOfNonEmptyCards(Tail(cards))

\* C13 as stated: the result has exactly one link per card that has both an
\* href and a datetime, in document order, with those attributes; every
\* other card contributes nothing.
C13_OneLinkPerCardWithBoth ==
    LinksApplied => result[1].value = LinksOfCards(arg.html[1].cards)

\* C13 amended: when no card of the page has a title link without href or a
\* time element without datetime, the result has exactly one link per card
\* that has both a non-empty href and a non-empty datetime, in document
\* order, with those attributes; every other card contributes nothing.
C13_OneLinkPerNonEmptyCard ==
    (LinksApplied /\ \A k \in 1..Len(arg.html[1].cards) : ~Raises(arg.html[1].cards[k])) =>
        result[1].value = LinksOfNonEmptyCards(arg.html[1].cards)

\* a page of two cards, the first without title link, gave one link
C13_Witness ==
    /\ LinksApplied
    /\ Len(arg.html[1].cards) = 2
    /\ arg.html[1].cards[1].link = "absent"
    /\ HasBothNonEmpty(arg.html[1].cards[2])
    /\ Len(result[1].value) = 1

-----------------------------------------------------------------------------
(* extract_content_from_news_link on its own, past its fetch *)

\* the extraction was applied to a page that was fetched
ContentApplied == arg.fn = "extract_content" /\ arg.html # None /\ result # None

\* the first n paragraph texts, each followed by a newline
RECURSIVE Lines(_, _)
Lines(paras, n) == IF n = 0 THEN "" ELSE Lines(paras, n - 1) \o paras[n] \o "\n"

\* C14 as stated: for a fetched page the result is None, without error, when
\* the page has no body container, and otherwise a dict whose content is
\* the paragraph texts in document order, each followed by a newline.
C14_NoneOrContent ==
    ContentApplied =>
        /\ result[1].raised = ""
        /\ IF arg.html[1].hasBody
           THEN /\ result[1].value # None
                /\ result[1].value[1].content =
                       Lines(arg.html[1].paras, Len(arg.html[1].paras))
           ELSE result[1].value = None

\* C14 amended: for a fetched page the result is None, without error, when
\* the page has no body container; when it has the body container and the
\* title heading, the result is a dict whose content is the paragraph texts
\* in document order, each followed by a newline.
C14_NoneOrContentOfTitledPage ==
    (ContentApplied /\ (arg.html[1].hasBody => arg.html[1].hasTitle)) =>
        /\ result[1].raised = ""
        /\ IF arg.html[1].hasBody
           THEN /\ result[1].value # None
                /\ result[1].value[1].content =
                       Lines(arg.html[1].paras, Len(arg.html[1].paras))
           ELSE result[1].value = None

\* a page with body, title and two different paragraphs was extracted
C14_Witness ==
    /\ ContentApplied
    /\ arg.html[1].hasBody
    /\ arg.html[1].hasTitle
    /\ Len(arg.html[1].paras) = 2
    /\ arg.html[1].paras[1] # arg.html[1].paras[2]
    /\ result[1].value # None

\* the fetch for link k returned a page with the body container but
\* without the title heading
Untitled(k) == HasArticle(k) /\ ~ArticleFetch(k).html[1].hasTitle

\* C15: an article page with the body container but no title heading gives
\* an error outcome, not a record and not the None of an absent body, and
\* the failure stays with that article: it does not end main.
C15_MissingTitleIsConfined ==
    \A k \in 1..NumArticleFetches :
        Untitled(k) =>
            /\ \A r \in 1..Len(src) : src[r] # k
            /\ pc # "raised"

-----------------------------------------------------------------------------
(* The timestamp of a record *)

\* 1714564800000, the epoch milliseconds of 2024-05-01 12:00:00 UTC
MillisOfTsGood == [hi |-> 1714564, lo |-> 800000]

\* C16: the timestamp of a record is the epoch milliseconds of the link's
\* string read as UTC wall-clock time, whatever the local time zone of the
\* host; "2024-05-01 12:00:00" gives 1714564800000.
C16_TimestampIsUtcMillis ==
    \A k \in 1..Len(news_information) :
        LET link == links[src[k]]
        IN  /\ news_information[k].timestamp =
                   Millis(timestamp(strptime(link.timestamp), 0))
            /\ link.timestamp = TsGood =>
                   news_information[k].timestamp = MillisOfTsGood

-----------------------------------------------------------------------------
(* Session lifecycle across main invocations *)

\* C17: across the main invocations on one extractor every session goes
\* Unstarted -> Started -> Stopped: a page is only navigated to on a session
\* this call started, and a session that was stopped gets no further
\* operation, in particular no second stop.
C17_LifecycleRespected ==
    /\ \A s \in 1..Len(sessions) : sessions[s] <= 1
    /\ \A k \in 1..Len(fetchLog) :
           fetchLog[k].session # 0 => fetchLog[k].session \in StartedThisCall

-----------------------------------------------------------------------------
(* Termination *)

Running == pc \in {"get_news_links", "get_all_news_content", "quit_chrome"}

Ended == pc \in {"returned", "raised"}

\* no page and no article is fetched twice
FetchBound == Len(fetchLog) <= page_count + Len(links)

\* C18: when every fetch returns, a main call that was entered ends, by
\* returning or by raising, and it makes at most page_count fetches plus
\* one per collected link: nothing is fetched again after a failure.
C18_MainTerminates == []FetchBound /\ (Running ~> Ended)

\* main returned after page_count + Len(links) fetches, one of them failed
C18_Witness ==
    /\ pc = "returned"
    /\ page_count = 2
    /\ links # <<>>
    /\ fetchLog[1].html = None
    /\ Len(fetchLog) = page_count + Len(links)

-----------------------------------------------------------------------------
(* A listing page with a card that raises *)

\* this step of get_news_links fetched a page one of whose cards raises
FetchedRaisingPage ==
    /\ pc = "get_news_links"
    /\ Len(fetchLog') = Len(fetchLog) + 1
    /\ fetchLog'[Len(fetchLog')].html # None
    /\ \E k \in 1..Len(fetchLog'[Len(fetchLog')].html[1].cards) :
           Raises(fetchLog'[Len(fetchLog')].html[1].cards[k])

\* C19: listing extraction is all-or-nothing per page: a page one of whose
\* cards raises (title link without href, time element without datetime)
\* gives no link at all, not even those of the well-formed cards before the
\* raising one, and the links of the other pages stay as they are.
C19_RaisingCardEmptiesPage == [][FetchedRaisingPage => links' = links]_vars

\* page 1 gave its links; page 2, a well-formed card followed by a raising
\* one, added none
C19_Witness ==
    /\ PagesAttempted = 2
    /\ fetchLog[1].html # None
    /\ fetchLog[2].html # None
    /\ Len(fetchLog[2].html[1].cards) = 2
    /\ HasBothNonEmpty(fetchLog[2].html[1].cards[1])
    /\ Raises(fetchLog[2].html[1].cards[2])
    /\ links # <<>>
    /\ links = LinksOfNonEmptyCards(fetchLog[1].html[1].cards)

=============================================================================
